---- MODULE Spec2Model ----
(***************************************************************************)
(* Model of the strava-assistant workflow orchestrator                     *)
(* (src/strava_assistant.py), of the trackpoint matcher                    *)
(* (src/photo_processor.py), of the track metrics aggregator               *)
(* (_extract_activity_data) and of the caption generator                   *)
(* (src/caption_generator.py).  The workflow is specified by Spec; the     *)
(* matcher, the aggregator and the caption generator are functions of      *)
(* their arguments and are specified on their own by SpecMatcher,          *)
(* SpecAggregator and SpecComposer.                                        *)
(*                                                                         *)
(* Time is counted in whole seconds of naive local wall-clock time; the    *)
(* program is started three hours after the earliest activity it can       *)
(* fetch, so that the first seconds of the run lie on both sides of the    *)
(* three hour grouping window.  Queue entries are Python dicts that        *)
(* sessions hold by reference; the model refers to them by their index in  *)
(* the (append-only) lists pending_photos and recent_activities.           *)
(***************************************************************************)
EXTENDS Integers, Sequences, FiniteSets, TLC

VARIABLES
    clock,              \* datetime.now(), seconds
    strava_api,         \* StravaAssistant.strava_api is not None
    pending_photos,     \* StravaAssistant.pending_photos
    recent_activities,  \* StravaAssistant.recent_activities
    processed_sessions, \* StravaAssistant.processed_sessions
    session_dirs,       \* work_dir/sessions/<session_id>/ : files and session_results.json
    sessions,           \* local list `sessions` of the pass in progress (not yet processed part)
    pc,                 \* position of the main thread: "idle" or "processing" (inside the for loop of a pass)
    last_error,         \* the exception that ended the last operation, "none" if it returned normally
    last_gpx_run,       \* process_photos_with_gpx: the directory, the files of its loop and the list returned by its last call
    m_query,            \* find_closest_trackpoint: photo_timestamp, its wall-clock reading
    m_query_aware,      \* find_closest_trackpoint: photo_timestamp.tzinfo is not None
    m_trackpoints,      \* find_closest_trackpoint: trackpoints
    m_tolerance,        \* find_closest_trackpoint: tolerance_seconds
    m_result,           \* find_closest_trackpoint: returned value, or the exception raised
    m_processed_data,   \* process_photos_with_gpx: the record built for the matched photo, lines 205-233
    a_track,            \* _extract_activity_data: the points of the GPX file, in file order
    a_result,           \* _extract_activity_data: returned dict
    a_caller,           \* what the callers of _extract_activity_data made of the dict
    c_activity_data,    \* generate_caption: activity_data
    c_photo_data,       \* generate_caption: photo_data
    c_include_sales_context, \* generate_caption: include_sales_context
    c_result,           \* generate_caption: the categories it selected
    c_caption,          \* generate_caption: the template chosen and the outcome of template.format
    f_distance,         \* format_distance: distance_meters, in tenths of a meter
    f_result,           \* format_distance: returned text
    h_activity_data,    \* _generate_hashtags: activity_data
    h_photo_data,       \* _generate_hashtags: photo_data
    h_run_type,         \* _generate_hashtags: run_type
    h_result,           \* _generate_hashtags: returned list
    s_environment,      \* StravaAPI.__init__: which of the three credentials os.getenv finds
    s_response,         \* StravaAPI.__init__: the outcome of the token request
    s_client            \* StravaAPI.__init__: the object constructed, or the exception raised

vars == <<clock, strava_api, pending_photos, recent_activities, processed_sessions,
          session_dirs, sessions, pc, last_error, last_gpx_run,
          m_query, m_query_aware, m_trackpoints, m_tolerance, m_result, m_processed_data,
          a_track, a_result, a_caller,
          c_activity_data, c_photo_data, c_include_sales_context, c_result, c_caption,
          f_distance, f_result,
          h_activity_data, h_photo_data, h_run_type, h_result,
          s_environment, s_response, s_client>>

workflow_vars == <<clock, strava_api, pending_photos, recent_activities, processed_sessions,
                   session_dirs, sessions, pc, last_error, last_gpx_run>>

matcher_vars == <<m_query, m_query_aware, m_trackpoints, m_tolerance, m_result, m_processed_data>>

aggregator_vars == <<a_track, a_result, a_caller>>

composer_vars == <<c_activity_data, c_photo_data, c_include_sales_context, c_result, c_caption>>

formatter_vars == <<f_distance, f_result>>

hashtag_vars == <<h_activity_data, h_photo_data, h_run_type, h_result>>

client_vars == <<s_environment, s_response, s_client>>

\* the state of the components the workflow steps of this model do not run
component_vars == <<matcher_vars, aggregator_vars, composer_vars, formatter_vars,
                    hashtag_vars, client_vars>>

-----------------------------------------------------------------------------
(* Bounds of the model *)

MaxPhotos == 2

MaxActivities == 2

MaxSessions == 2

MaxSecs == 1

MaxTrackLen == 3

MaxTime == 3

MaxTolerance == 2

MaxSamples == 2

MaxSampleTime == 1

MaxPos == 1

MaxElev == 1

\* format_distance: the largest distance, in tenths of a meter
MaxDistance == 103000

(* Program constants *)

time_window_hours == 3

SecondsPerHour == 3600

\* the wall-clock time at which the program is started
StartClock == time_window_hours * SecondsPerHour

Abs(x) == IF x < 0 THEN -x ELSE x

-----------------------------------------------------------------------------
(* Files.  A path is modelled by its name and its suffix (Path.suffix).    *)

PhotoSuffixes == {".jpg", ".jpeg", ".png", ".heic"}

BraceSuffix == ".{jpg,jpeg,png,heic}"

JpgFile == [name |-> "run", suffix |-> ".jpg"]

BraceFile == [name |-> "run", suffix |-> BraceSuffix]

TextFile == [name |-> "notes", suffix |-> ".txt"]

\* files whose creation the watcher may report
WatchedFiles == {JpgFile, BraceFile, TextFile}

\* paths a caller may hand to queue_photo_for_processing
Paths == {JpgFile, BraceFile}

\* photo_dir.glob('*.{jpg,jpeg,png,heic}'): pathlib does no brace expansion,
\* the pattern matches the names that end in the literal text
GlobMatches(path) == path.suffix = BraceSuffix

-----------------------------------------------------------------------------
(* Activities as the Strava API reports them.  start_date_local is a       *)
(* wall-clock time; when the string ends in 'Z' get_activity_summary       *)
(* turns it into a zone-aware datetime (aware = TRUE).                     *)

RemoteActivities ==
    { [activity_id |-> 1, start_date |-> 0,              aware |-> FALSE],
      [activity_id |-> 2, start_date |-> 1,              aware |-> FALSE],
      [activity_id |-> 3, start_date |-> 0,              aware |-> TRUE] }

\* the lists get_recent_activities can return: no activity twice
Responses ==
    {<<>>} \cup { <<a>> : a \in RemoteActivities }
           \cup { <<a, b>> : <<a, b>> \in
                    { p \in RemoteActivities \X RemoteActivities : p[1].activity_id < p[2].activity_id } }

ActivityEntry(a) ==
    [activity_id |-> a.activity_id, start_date |-> a.start_date, aware |-> a.aware,
     processed |-> FALSE]

RECURSIVE AppendActivities(_, _)
AppendActivities(entries, activities) ==
    IF activities = <<>> THEN entries
    ELSE AppendActivities(Append(entries, ActivityEntry(Head(activities))), Tail(activities))

-----------------------------------------------------------------------------
(* _group_photos_with_activities *)

\* photo_time - activity_time: a naive and an aware datetime cannot be subtracted
\* (photo timestamps are datetime.now(), always naive)
TimeDiffHoursWithin(photo_entry, activity_entry, window_hours) ==
    Abs(photo_entry.timestamp - activity_entry.start_date) <= window_hours * SecondsPerHour

\* SessionPhotos without the line `if photo_entry['processed']: continue`
SessionPhotosNoSkip(activity_entry, photos, window_hours) ==
    LET F[k \in 0..Len(photos)] ==
            IF k = 0 THEN [raised |-> FALSE, photos |-> <<>>]
            ELSE IF F[k-1].raised THEN F[k-1]
            ELSE IF activity_entry.aware THEN [raised |-> TRUE, photos |-> <<>>]
            ELSE IF TimeDiffHoursWithin(photos[k], activity_entry, window_hours)
                 THEN [raised |-> FALSE, photos |-> Append(F[k-1].photos, k)]
                 ELSE F[k-1]
    IN F[Len(photos)]

\* inner loop: the indices of the photo entries folded into the activity's
\* session; raised is TRUE when the subtraction raises TypeError
SessionPhotos(activity_entry, photos, window_hours) ==
    LET F[k \in 0..Len(photos)] ==
            IF k = 0 THEN [raised |-> FALSE, photos |-> <<>>]
            ELSE IF F[k-1].raised THEN F[k-1]
            ELSE IF photos[k].processed THEN F[k-1]
            ELSE IF activity_entry.aware THEN [raised |-> TRUE, photos |-> <<>>]
            ELSE IF TimeDiffHoursWithin(photos[k], activity_entry, window_hours)
                 THEN [raised |-> FALSE, photos |-> Append(F[k-1].photos, k)]
                 ELSE F[k-1]
    IN F[Len(photos)]

\* the second in which the n-th session of the pass is created: the clock may
\* pass a second boundary before the tick_at-th session (0: it does not)
SessionIdAt(now, n, tick_at) ==
    IF tick_at # 0 /\ n >= tick_at THEN now + 1 ELSE now

\* outer loop: the list of session candidates; raised is TRUE when the scan
\* raises TypeError
GroupPhotosWithActivities(activities, photos, window_hours, now, tick_at) ==
    LET G[i \in 0..Len(activities)] ==
            IF i = 0 THEN [raised |-> FALSE, sessions |-> <<>>]
            ELSE IF G[i-1].raised THEN G[i-1]
            ELSE IF activities[i].processed THEN G[i-1]
            ELSE LET session_photos == SessionPhotos(activities[i], photos, window_hours)
                 IN IF session_photos.raised THEN [raised |-> TRUE, sessions |-> <<>>]
                    ELSE IF session_photos.photos # <<>>
                         THEN [raised |-> FALSE,
                               sessions |-> Append(G[i-1].sessions,
                                     [activity |-> i,
                                      photos |-> session_photos.photos,
                                      session_id |-> SessionIdAt(now, Len(G[i-1].sessions) + 1, tick_at)])]
                         ELSE G[i-1]
    IN G[Len(activities)]

-----------------------------------------------------------------------------
(* PhotoGeoTagger.find_closest_trackpoint.  A datetime is a wall-clock      *)
(* reading with or without zone information (aware).  The photo timestamps *)
(* the program passes are naive (extract_photo_timestamp builds them with  *)
(* strptime or fromtimestamp); the method itself accepts any datetime.      *)

TrackPoints == [time : 0..MaxTime, aware : BOOLEAN]

\* gpx_time.replace(tzinfo=None): the zone is dropped, the wall-clock reading kept
StripZone(gpx_time) == [time |-> gpx_time.time, aware |-> FALSE]

\* photo_timestamp - gpx_time is defined between two naive or two aware
\* datetimes; between a naive and an aware one Python raises TypeError
Subtractable(photo_timestamp, gpx_time) == photo_timestamp.aware = gpx_time.aware

\* abs((photo_timestamp - gpx_time).total_seconds())
TimeDiff(photo_timestamp, gpx_time) == Abs(photo_timestamp.time - gpx_time.time)

\* min_diff = float('inf'), closest_point = None
NoClosest == [raised |-> FALSE, finite |-> FALSE, min_diff |-> 0, found |-> FALSE, index |-> 0]

\* ScanPoint without the test `time_diff <= tolerance_seconds`
ScanPointNoTolerance(acc, k, point, photo_timestamp, tolerance_seconds) ==
    LET gpx_time == IF point.aware THEN StripZone(point) ELSE point
        time_diff == TimeDiff(photo_timestamp, gpx_time)
    IN IF acc.raised THEN acc
       ELSE IF ~Subtractable(photo_timestamp, gpx_time) THEN [acc EXCEPT !.raised = TRUE]
       ELSE IF ~acc.finite \/ time_diff < acc.min_diff
       THEN [acc EXCEPT !.finite = TRUE, !.min_diff = time_diff, !.found = TRUE, !.index = k]
       ELSE acc

\* ScanPoint with `time_diff <= min_diff` in place of `time_diff < min_diff`
ScanPointLastTie(acc, k, point, photo_timestamp, tolerance_seconds) ==
    LET gpx_time == IF point.aware THEN StripZone(point) ELSE point
        time_diff == TimeDiff(photo_timestamp, gpx_time)
    IN IF acc.raised THEN acc
       ELSE IF ~Subtractable(photo_timestamp, gpx_time) THEN [acc EXCEPT !.raised = TRUE]
       ELSE IF (~acc.finite \/ time_diff <= acc.min_diff) /\ time_diff <= tolerance_seconds
       THEN [acc EXCEPT !.finite = TRUE, !.min_diff = time_diff, !.found = TRUE, !.index = k]
       ELSE acc

\* one iteration of the for loop, lines 85-95; once the subtraction has raised
\* the loop is left
ScanPoint(acc, k, point, photo_timestamp, tolerance_seconds) ==
    LET gpx_time == IF point.aware THEN StripZone(point) ELSE point
        time_diff == TimeDiff(photo_timestamp, gpx_time)
    IN IF acc.raised THEN acc
       ELSE IF ~Subtractable(photo_timestamp, gpx_time) THEN [acc EXCEPT !.raised = TRUE]
       ELSE IF (~acc.finite \/ time_diff < acc.min_diff) /\ time_diff <= tolerance_seconds
       THEN [acc EXCEPT !.finite = TRUE, !.min_diff = time_diff, !.found = TRUE, !.index = k]
       ELSE acc

\* returned: the call returned (a trackpoint when found, None otherwise);
\* error: the exception that left the call
find_closest_trackpoint(photo_timestamp, trackpoints, tolerance_seconds) ==
    LET S[k \in 0..Len(trackpoints)] ==
            IF k = 0 THEN NoClosest
            ELSE ScanPoint(S[k-1], k, trackpoints[k], photo_timestamp, tolerance_seconds)
        closest == IF trackpoints = <<>> THEN NoClosest ELSE S[Len(trackpoints)]
    IN IF closest.raised
       THEN [returned |-> FALSE, error |-> "TypeError", found |-> FALSE, index |-> 0]
       ELSE [returned |-> TRUE, error |-> "none", found |-> closest.found, index |-> closest.index]

\* process_photos_with_gpx, lines 205-233, for a photo with a closest point:
\* no record when geotag_photo returns False; line 230 subtracts
\* closest_point['time'] as the GPX file gave it
ProcessedData(photo_timestamp, closest_point, geotag_ok) ==
    IF ~geotag_ok
    THEN [done |-> TRUE, error |-> "none", present |-> FALSE, time_diff_seconds |-> 0]
    ELSE IF ~Subtractable(photo_timestamp, closest_point)
    THEN [done |-> TRUE, error |-> "TypeError", present |-> FALSE, time_diff_seconds |-> 0]
    ELSE [done |-> TRUE, error |-> "none", present |-> TRUE,
          time_diff_seconds |-> TimeDiff(photo_timestamp, closest_point)]

-----------------------------------------------------------------------------
(* StravaAssistant._extract_activity_data.  A point of a GPX file has a    *)
(* time, a position and an elevation that may be missing (None).           *)
(* Positions lie on one line, pos metres from its origin, so that the      *)
(* geodesic distance of two points is the difference of their pos.         *)
(* Quotients are kept as fractions [num, den] of integers.                 *)

NoElevation == [has |-> FALSE, value |-> 0]

Elevations == {NoElevation} \cup { [has |-> TRUE, value |-> v] : v \in (0 - MaxElev)..MaxElev }

GpxPoints == [time : 0..MaxSampleTime, pos : 0..MaxPos, elevation : Elevations]

\* the value of `point['elevation']` as a condition: None and 0 are false
Truthy(elevation) == elevation.has /\ elevation.value # 0

\* geodesic(...).meters
Geodesic(prev_point, point) == Abs(point.pos - prev_point.pos)

\* sorted(trackpoints, key=lambda x: x['time']): stable, a point is placed
\* behind the points with the same time that precede it in the file
RECURSIVE InsertByTime(_, _)
InsertByTime(sorted, point) ==
    IF sorted = <<>> THEN <<point>>
    ELSE IF Head(sorted).time <= point.time
         THEN <<Head(sorted)>> \o InsertByTime(Tail(sorted), point)
         ELSE <<point>> \o sorted

\* parse_gpx_file without the sort of its last line
ParseGpxFileUnsorted(gpx_file) == gpx_file

\* parse_gpx_file: the points of the file, sorted by time
parse_gpx_file(gpx_file) ==
    LET P[k \in 0..Len(gpx_file)] ==
            IF k = 0 THEN <<>> ELSE InsertByTime(P[k-1], gpx_file[k])
    IN P[Len(gpx_file)]

Fraction(num, den) == [num |-> num, den |-> den]

\* sum(speeds)
RECURSIVE SumSpeeds(_)
SumSpeeds(speeds) ==
    IF speeds = <<>> THEN Fraction(0, 1)
    ELSE LET rest == SumSpeeds(Tail(speeds))
         IN Fraction(Head(speeds).num * rest.den + rest.num * Head(speeds).den,
                     Head(speeds).den * rest.den)

\* lines 417-420; running lists the values total_distance takes, pair by pair
NoTotals ==
    [raised |-> FALSE, total_distance |-> 0, total_time |-> 0, elevation_gain |-> 0,
     speeds |-> <<>>, running |-> <<>>]

\* AggregatePair with `total_distance += dist` moved under `if time_diff > 0`
AggregatePairMovingOnly(acc, prev_point, point) ==
    LET dist == Geodesic(prev_point, point)
        time_diff == point.time - prev_point.time
        total_distance == IF time_diff > 0 THEN acc.total_distance + dist ELSE acc.total_distance
        speeds == IF time_diff > 0
                  THEN Append(acc.speeds, Fraction(dist * 36, time_diff * 10))
                  ELSE acc.speeds
        elev_diff == point.elevation.value - prev_point.elevation.value
        elevation_gain == IF Truthy(point.elevation) /\ Truthy(prev_point.elevation) /\ elev_diff > 0
                          THEN acc.elevation_gain + elev_diff
                          ELSE acc.elevation_gain
    IN IF acc.raised THEN acc
       ELSE [raised |-> FALSE, total_distance |-> total_distance,
             total_time |-> acc.total_time + time_diff, elevation_gain |-> elevation_gain,
             speeds |-> speeds, running |-> Append(acc.running, total_distance)]

\* AggregatePair with `if time_diff >= 0` in place of `if time_diff > 0`:
\* dist / time_diff raises ZeroDivisionError for a time difference of 0
AggregatePairSpeedAtZero(acc, prev_point, point) ==
    LET dist == Geodesic(prev_point, point)
        time_diff == point.time - prev_point.time
        total_distance == acc.total_distance + dist
        speeds == IF time_diff > 0
                  THEN Append(acc.speeds, Fraction(dist * 36, time_diff * 10))
                  ELSE acc.speeds
        elev_diff == point.elevation.value - prev_point.elevation.value
        elevation_gain == IF Truthy(point.elevation) /\ Truthy(prev_point.elevation) /\ elev_diff > 0
                          THEN acc.elevation_gain + elev_diff
                          ELSE acc.elevation_gain
    IN IF acc.raised THEN acc
       ELSE IF time_diff = 0 THEN [acc EXCEPT !.raised = TRUE]
       ELSE [raised |-> FALSE, total_distance |-> total_distance,
             total_time |-> acc.total_time + time_diff, elevation_gain |-> elevation_gain,
             speeds |-> speeds, running |-> Append(acc.running, total_distance)]

\* one iteration of the for loop with a previous point, lines 424-447;
\* speed_kmh = dist / time_diff * 3.6 is the fraction (dist * 36) / (time_diff * 10)
AggregatePair(acc, prev_point, point) ==
    LET dist == Geodesic(prev_point, point)
        time_diff == point.time - prev_point.time
        total_distance == acc.total_distance + dist
        speeds == IF time_diff > 0
                  THEN Append(acc.speeds, Fraction(dist * 36, time_diff * 10))
                  ELSE acc.speeds
        elev_diff == point.elevation.value - prev_point.elevation.value
        elevation_gain == IF Truthy(point.elevation) /\ Truthy(prev_point.elevation) /\ elev_diff > 0
                          THEN acc.elevation_gain + elev_diff
                          ELSE acc.elevation_gain
    IN IF acc.raised THEN acc
       ELSE [raised |-> FALSE, total_distance |-> total_distance,
             total_time |-> acc.total_time + time_diff, elevation_gain |-> elevation_gain,
             speeds |-> speeds, running |-> Append(acc.running, total_distance)]

\* the dict {} : no key is present
EmptyDict ==
    [present |-> FALSE, distance |-> 0, duration |-> 0, average_speed |-> Fraction(0, 1),
     elevation_gain |-> 0, start_time |-> 0, end_time |-> 0, running |-> <<>>]

\* _extract_activity_data: the returned dict (with the values total_distance
\* took); every exception is caught at line 463 and {} returned
extract_activity_data(gpx_file) ==
    LET trackpoints == parse_gpx_file(gpx_file)
        T[k \in 1..Len(trackpoints)] ==
            IF k = 1 THEN NoTotals
            ELSE AggregatePair(T[k-1], trackpoints[k-1], trackpoints[k])
    IN IF trackpoints = <<>> THEN EmptyDict
       ELSE LET totals == T[Len(trackpoints)]
                sum == SumSpeeds(totals.speeds)
                avg_speed == IF totals.speeds # <<>>
                             THEN Fraction(sum.num, sum.den * Len(totals.speeds))
                             ELSE Fraction(0, 1)
            IN IF totals.raised THEN EmptyDict
               ELSE [present |-> TRUE,
                     distance |-> totals.total_distance,
                     duration |-> totals.total_time,
                     average_speed |-> avg_speed,
                     elevation_gain |-> totals.elevation_gain,
                     start_time |-> trackpoints[1].time,
                     end_time |-> trackpoints[Len(trackpoints)].time,
                     running |-> totals.running]

-----------------------------------------------------------------------------
(* StravaCaptionGenerator.  activity_data is a dict read with              *)
(* .get(key, 0); photo_data carries the capture time and the resolved      *)
(* location.  A timestamp is the hour it reads, or a text fromisoformat    *)
(* rejects (valid = FALSE; a missing timestamp is the text '').  A         *)
(* location is given by the words its lower-cased text contains.           *)

Get(activity_data, value, default) == IF activity_data.present THEN value ELSE default

ScenicWords == {"park", "trail", "mountain", "lake", "river", "beach"}

HoursOfDay == 0..23

Timestamps == [valid : {TRUE}, hour : HoursOfDay] \cup {[valid |-> FALSE, hour |-> 0]}

Locations == { {}, {"park"}, {"hill"}, {"street", "beach"} }

PhotoData == [timestamp : Timestamps, location_name : Locations]

\* distance, tenths of average_speed and elevation_gain on both sides of the
\* numbers determine_run_type compares them with
ActivityData ==
    {EmptyDict} \cup
    { [EmptyDict EXCEPT !.present = TRUE, !.distance = d,
                        !.average_speed = Fraction(p, 10), !.elevation_gain = e] :
        d \in {4, 5, 8, 9}, p \in {54, 55, 65, 66}, e \in {100, 101} }

analyze_time_of_day(timestamp) ==
    IF ~timestamp.valid THEN "day"
    ELSE IF 5 <= timestamp.hour /\ timestamp.hour < 11 THEN "morning"
    ELSE IF 11 <= timestamp.hour /\ timestamp.hour < 17 THEN "afternoon"
    ELSE IF 17 <= timestamp.hour /\ timestamp.hour < 21 THEN "evening"
    ELSE "night"

\* determine_run_type with the test for a challenging run before the test
\* for scenic words
DetermineRunTypeChallengingFirst(activity_data, photo_data) ==
    LET distance == Get(activity_data, activity_data.distance, 0)
        elevation == Get(activity_data, activity_data.elevation_gain, 0)
        pace == Get(activity_data, activity_data.average_speed, Fraction(0, 1))
        time_of_day == analyze_time_of_day(photo_data.timestamp)
    IN IF elevation > 100 \/ (distance > 8 /\ pace.num * 10 < 55 * pace.den)
       THEN "challenging_run"
       ELSE IF photo_data.location_name \cap ScenicWords # {}
       THEN "scenic_run"
       ELSE IF pace.num * 10 > 65 * pace.den \/ distance < 5
       THEN "casual_run"
       ELSE IF time_of_day \in {"morning", "evening"}
       THEN time_of_day \o "_run"
       ELSE "casual_run"

\* pace < 5.5 and pace > 6.5 are compared in tenths
determine_run_type(activity_data, photo_data) ==
    LET distance == Get(activity_data, activity_data.distance, 0)
        elevation == Get(activity_data, activity_data.elevation_gain, 0)
        pace == Get(activity_data, activity_data.average_speed, Fraction(0, 1))
        time_of_day == analyze_time_of_day(photo_data.timestamp)
    IN IF photo_data.location_name \cap ScenicWords # {}
       THEN "scenic_run"
       ELSE IF elevation > 100 \/ (distance > 8 /\ pace.num * 10 < 55 * pace.den)
       THEN "challenging_run"
       ELSE IF pace.num * 10 > 65 * pace.den \/ distance < 5
       THEN "casual_run"
       ELSE IF time_of_day \in {"morning", "evening"}
       THEN time_of_day \o "_run"
       ELSE "casual_run"

\* distance_meters / 1000
MetersPerKm == 1000

\* round(num / den) to the nearest integer, a tie to the even one: what the
\* format specs .0f and .1f do with a value the float holds exactly
RoundHalfEven(num, den) ==
    LET q == num \div den
        r == num % den
    IN IF 2 * r < den THEN q
       ELSE IF 2 * r > den THEN q + 1
       ELSE IF q % 2 = 0 THEN q ELSE q + 1

\* the text of a number with `decimals` digits behind the point, followed by
\* a suffix: "10.3k" is [whole |-> 10, decimals |-> 1, tenth |-> 3, suffix |-> "k"]
DistanceText(whole, decimals, tenth, suffix) ==
    [called |-> TRUE, error |-> "none",
     whole |-> whole, decimals |-> decimals, tenth |-> tenth, suffix |-> suffix]

\* format_distance without the branch `elif km.is_integer()`
FormatDistanceAlwaysDecimal(distance_meters, above) ==
    LET km_den == MetersPerKm * 10
        tenths_den == MetersPerKm
        exact_tie == distance_meters % (5 * tenths_den) = (5 * tenths_den) \div 2
        tenths == IF 2 * (distance_meters % tenths_den) # tenths_den \/ exact_tie
                  THEN RoundHalfEven(distance_meters, tenths_den)
                  ELSE (distance_meters \div tenths_den) + (IF above THEN 1 ELSE 0)
    IN IF distance_meters < km_den
       THEN DistanceText(RoundHalfEven(distance_meters, 10), 0, 0, "m")
       ELSE DistanceText(tenths \div 10, 1, tenths % 10, "k")

\* format_distance, lines 113-121.  distance_meters is given in tenths of a
\* meter.  km < 1 and km.is_integer() are decided on the exact quotient.
\* f"{km:.1f}" rounds the float nearest to the quotient: where the quotient
\* lies halfway between two tenths, the float holds it exactly only for
\* quarters (x.25, x.75), which round to the even tenth; any other halfway
\* quotient is rounded to the side the float lies on (above).
format_distance(distance_meters, above) ==
    LET km_den == MetersPerKm * 10
        tenths_den == MetersPerKm
        exact_tie == distance_meters % (5 * tenths_den) = (5 * tenths_den) \div 2
        tenths == IF 2 * (distance_meters % tenths_den) # tenths_den \/ exact_tie
                  THEN RoundHalfEven(distance_meters, tenths_den)
                  ELSE (distance_meters \div tenths_den) + (IF above THEN 1 ELSE 0)
    IN IF distance_meters < km_den
       THEN DistanceText(RoundHalfEven(distance_meters, 10), 0, 0, "m")
       ELSE IF distance_meters % km_den = 0
       THEN DistanceText(distance_meters \div km_den, 0, 0, "k")
       ELSE DistanceText(tenths \div 10, 1, tenths % 10, "k")

-----------------------------------------------------------------------------
(* StravaAPI.__init__.  A credential is TRUE when os.getenv returns a      *)
(* non-empty text for it.  The token request ends in an exception of       *)
(* requests, in an error status (raise_for_status), in a body that is no   *)
(* JSON, or in a JSON object; of the object only the presence of the key   *)
(* 'refresh_token' and the value of 'access_token' (key missing, null, ''  *)
(* or a token) matter.                                                     *)

Environments == [client_id : BOOLEAN, client_secret : BOOLEAN, refresh_token : BOOLEAN]

TokenResponses ==
    [status : {"connection_error", "http_error", "not_json"},
     has_refresh_token : {FALSE}, access_token : {"missing"}]
    \cup [status : {"ok"}, has_refresh_token : BOOLEAN,
          access_token : {"missing", "null", "empty", "token"}]

\* Python's None, and a str
None == [none |-> TRUE, text |-> ""]

Str(text) == [none |-> FALSE, text |-> text]

\* lines 33-62: None without the three credentials, None when anything in the
\* try block raises (the request, raise_for_status, json(), a missing key)
get_fresh_access_token(environment, response) ==
    IF ~environment.refresh_token \/ ~environment.client_id \/ ~environment.client_secret
    THEN None
    ELSE IF response.status # "ok" THEN None
    ELSE IF ~response.has_refresh_token THEN None
    ELSE IF response.access_token = "missing" THEN None
    ELSE IF response.access_token = "null" THEN None
    ELSE IF response.access_token = "empty" THEN Str("")
    ELSE Str("token")

\* StravaAPI without lines 30-31, `if not self.access_token: raise ValueError`
StravaAPINoCheck(environment, response) ==
    [called |-> TRUE, error |-> "none", constructed |-> TRUE,
     access_token |-> get_fresh_access_token(environment, response)]

\* lines 21-31: constructed is TRUE when the constructor returned
StravaAPI(environment, response) ==
    LET access_token == get_fresh_access_token(environment, response)
    IN IF access_token.none \/ access_token.text = ""
       THEN [called |-> TRUE, error |-> "ValueError", constructed |-> FALSE,
             access_token |-> access_token]
       ELSE [called |-> TRUE, error |-> "none", constructed |-> TRUE,
             access_token |-> access_token]

-----------------------------------------------------------------------------
(* _generate_hashtags.  A text is the sequence of its characters.          *)

UpperLetters == <<"A", "B", "C", "D", "E", "F", "G", "H", "I", "J", "K", "L", "M", "N", "O", "P", "Q", "R", "S", "T", "U", "V", "W", "X", "Y", "Z">>

LowerLetters == <<"a", "b", "c", "d", "e", "f", "g", "h", "i", "j", "k", "l", "m", "n", "o", "p", "q", "r", "s", "t", "u", "v", "w", "x", "y", "z">>

Digits == {"0", "1", "2", "3", "4", "5", "6", "7", "8", "9"}

\* str.lower() on one character
Lower(c) ==
    IF \E i \in 1..Len(UpperLetters) : UpperLetters[i] = c
    THEN LowerLetters[CHOOSE i \in 1..Len(UpperLetters) : UpperLetters[i] = c]
    ELSE c

LowerText(text) == [k \in 1..Len(text) |-> Lower(text[k])]

\* the class [a-zA-Z0-9] of the pattern at line 241
IsAlnum(c) ==
    \/ \E i \in 1..Len(UpperLetters) : c \in {UpperLetters[i], LowerLetters[i]}
    \/ c \in Digits

\* re.sub(r'[^a-zA-Z0-9]', '', text)
Sanitize(text) == SelectSeq(text, IsAlnum)

\* location.split(', ')[0]: the text before the first ", "
FirstPart(location) ==
    LET cuts == { k \in 1..(Len(location) - 1) : location[k] = "," /\ location[k + 1] = " " }
    IN IF cuts = {} THEN location
       ELSE SubSeq(location, 1, (CHOOSE k \in cuts : \A j \in cuts : k <= j) - 1)

RunningTag == <<"#", "r", "u", "n", "n", "i", "n", "g">>

StravaTag == <<"#", "s", "t", "r", "a", "v", "a">>

MarathonTag == <<"#", "m", "a", "r", "a", "t", "h", "o", "n">>

LongRunTag == <<"#", "l", "o", "n", "g", "r", "u", "n">>

FiveKTag == <<"#", "5", "k">>

MorningRunTag == <<"#", "m", "o", "r", "n", "i", "n", "g", "r", "u", "n">>

EveningRunTag == <<"#", "e", "v", "e", "n", "i", "n", "g", "r", "u", "n">>

ScenicRunTag == <<"#", "s", "c", "e", "n", "i", "c", "r", "u", "n">>

HillRunTag == <<"#", "h", "i", "l", "l", "r", "u", "n">>

\* 'scenic' in run_type, for the run types generate_caption passes
\* (<word>_run or sales_context)
InRunType(word, run_type) == run_type = word \o "_run"

\* hashtags[:6]
FirstSix(hashtags) == SubSeq(hashtags, 1, IF Len(hashtags) < 6 THEN Len(hashtags) ELSE 6)

\* lines 221-257; distance is in meters, distance_km > 21 is compared in meters
generate_hashtags(activity_data, photo_data, run_type) ==
    LET distance == Get(activity_data, activity_data.distance, 0)
        distance_tags == IF distance > 21 * MetersPerKm THEN <<MarathonTag>>
                         ELSE IF distance > 10 * MetersPerKm THEN <<LongRunTag>>
                         ELSE IF distance > 5 * MetersPerKm THEN <<FiveKTag>>
                         ELSE <<>>
        location == photo_data.location_name
        city_tag == <<"#">> \o Sanitize(LowerText(FirstPart(location)))
        location_tags == IF location # <<>> /\ Len(city_tag) > 3 THEN <<city_tag>> ELSE <<>>
        time_of_day == analyze_time_of_day(photo_data.timestamp)
        time_tags == IF time_of_day = "morning" THEN <<MorningRunTag>>
                     ELSE IF time_of_day = "evening" THEN <<EveningRunTag>>
                     ELSE <<>>
        type_tags == IF InRunType("scenic", run_type) THEN <<ScenicRunTag>>
                     ELSE IF InRunType("challenging", run_type) THEN <<HillRunTag>>
                     ELSE <<>>
    IN [called |-> TRUE, error |-> "none",
        hashtags |-> FirstSix(<<RunningTag, StravaTag>> \o distance_tags \o location_tags
                                \o time_tags \o type_tags)]

-----------------------------------------------------------------------------
(* generate_caption *)

\* the keys of self.templates
TemplateKeys ==
    {"morning_run", "evening_run", "scenic_run", "challenging_run", "casual_run", "sales_context"}

\* SalesContext without the test of the time of day
SalesContextAnyTime(run_type, time_of_day, include_sales_context) ==
    IF include_sales_context THEN "sales_context" ELSE run_type

\* lines 194-195
SalesContext(run_type, time_of_day, include_sales_context) ==
    IF include_sales_context /\ time_of_day \in {"evening", "afternoon"}
    THEN "sales_context"
    ELSE run_type

\* generate_caption up to the choice of the template list: the time of day,
\* the run type of determine_run_type, the run type after lines 194-195 and the
\* key whose templates are used
generate_caption(activity_data, photo_data, include_sales_context) ==
    LET time_of_day == analyze_time_of_day(photo_data.timestamp)
        base == determine_run_type(activity_data, photo_data)
        run_type == SalesContext(base, time_of_day, include_sales_context)
    IN [called |-> TRUE, error |-> "none", time_of_day |-> time_of_day, base |-> base,
        run_type |-> run_type,
        templates |-> IF run_type \in TemplateKeys THEN run_type ELSE "casual_run"]

\* self.templates: a template is given by the replacement fields of its text,
\* in the order they occur
Templates ==
    [morning_run |-> << <<"distance", "location", "weather_desc">>,
                        <<"location", "distance", "mood", "achievement">>,
                        <<"distance", "location">> >>,
     evening_run |-> << <<"distance", "location">>,
                        <<"distance", "location", "weather_desc">>,
                        <<"distance", "location">> >>,
     scenic_run |-> << <<"distance", "location">>,
                       <<"distance", "location">>,
                       <<"distance", "location">> >>,
     challenging_run |-> << <<"distance", "location">>,
                            <<"distance", "location">>,
                            <<"distance", "location">> >>,
     casual_run |-> << <<"distance", "location">>,
                       <<"location", "distance">>,
                       <<"distance", "location">> >>,
     sales_context |-> << <<"distance", "location">>,
                          <<"distance", "location">>,
                          <<"location", "distance">> >>]

\* get_weather_description: the list random.choice draws from, '' when empty
WeatherDescriptions(time_of_day) ==
    IF time_of_day = "morning"
    THEN <<"Perfect crisp morning", "Beautiful start to the day", "Morning magic">>
    ELSE IF time_of_day = "evening"
    THEN <<"Golden hour vibes", "Perfect evening", "Sunset therapy">>
    ELSE <<"">>

\* get_mood_and_achievement: the moods random.choice draws from, and the
\* achievement
MoodAndAchievement(activity_data) ==
    LET distance == Get(activity_data, activity_data.distance, 0)
        pace == Get(activity_data, activity_data.average_speed, Fraction(0, 1))
    IN IF distance > 10 * MetersPerKm
       THEN [moods |-> <<"determination", "grit", "endurance">>, achievement |-> "Long run"]
       ELSE IF pace.num > 12 * pace.den
       THEN [moods |-> <<"speed", "power", "fire">>, achievement |-> "Speed work"]
       ELSE [moods |-> <<"zen", "peace", "clarity">>, achievement |-> "Miles banked"]

\* one draw of random.choice from a list
Choice(list, pick) == list[((pick - 1) % Len(list)) + 1]

\* FormatKwargs without the keyword argument mood
FormatKwargsNoMood(activity_data, photo_data, time_of_day, pick, above) ==
    [distance |-> format_distance(10 * Get(activity_data, activity_data.distance, 0), above),
     location |-> photo_data.location_name,
     weather_desc |-> Choice(WeatherDescriptions(time_of_day), pick.weather),
     achievement |-> MoodAndAchievement(activity_data).achievement]

\* the keyword arguments of template.format, lines 202-208
FormatKwargs(activity_data, photo_data, time_of_day, pick, above) ==
    [distance |-> format_distance(10 * Get(activity_data, activity_data.distance, 0), above),
     location |-> photo_data.location_name,
     weather_desc |-> Choice(WeatherDescriptions(time_of_day), pick.weather),
     mood |-> Choice(MoodAndAchievement(activity_data).moods, pick.mood),
     achievement |-> MoodAndAchievement(activity_data).achievement]

\* str.format: KeyError for a replacement field that is no keyword argument,
\* otherwise every field is replaced by the value of its argument
Format(template, kwargs) ==
    IF \E k \in 1..Len(template) : template[k] \notin DOMAIN kwargs
    THEN [formatted |-> FALSE, error |-> "KeyError", template |-> template, caption |-> <<>>]
    ELSE [formatted |-> TRUE, error |-> "none", template |-> template,
          caption |-> [k \in 1..Len(template) |-> kwargs[template[k]]]]

\* lines 198-208: the random choice of a template of the category, and its
\* formatting; pick holds the draws of random.choice
format_caption(selected, activity_data, photo_data, pick, above) ==
    LET templates == Templates[selected.templates]
        template == Choice(templates, pick.template)
    IN Format(template, FormatKwargs(activity_data, photo_data, selected.time_of_day, pick, above))

\* display_session_preview reading activity_data['distance'] in place of
\* activity_data.get('distance', 0): KeyError when the key is missing
DisplaySessionPreviewSubscript(activity_data) ==
    [called |-> TRUE, error |-> IF activity_data.present THEN "none" ELSE "KeyError",
     distance |-> activity_data.distance,
     duration |-> Get(activity_data, activity_data.duration, 0),
     average_speed |-> Get(activity_data, activity_data.average_speed, Fraction(0, 1)),
     elevation_gain |-> Get(activity_data, activity_data.elevation_gain, 0)]

\* _display_session_preview: what it reads of activity_data
display_session_preview(activity_data) ==
    [called |-> TRUE, error |-> "none",
     distance |-> Get(activity_data, activity_data.distance, 0),
     duration |-> Get(activity_data, activity_data.duration, 0),
     average_speed |-> Get(activity_data, activity_data.average_speed, Fraction(0, 1)),
     elevation_gain |-> Get(activity_data, activity_data.elevation_gain, 0)]

-----------------------------------------------------------------------------
(* State after StravaAssistant.__init__ *)

\* _extract_activity_data has not been called
NoCall == [called |-> FALSE, error |-> "none"]

NoAggregation ==
    /\ a_track = <<>>
    /\ a_result = [called |-> FALSE, value |-> EmptyDict]
    /\ a_caller = NoCall

\* template.format has not been reached
NoCaption == [formatted |-> FALSE, error |-> "none", template |-> <<>>, caption |-> <<>>]

\* generate_caption has not been called
NoComposition ==
    /\ c_activity_data = EmptyDict
    /\ c_photo_data = [timestamp |-> [valid |-> FALSE, hour |-> 0], location_name |-> {}]
    /\ c_include_sales_context = FALSE
    /\ c_result = NoCall
    /\ c_caption = NoCaption

\* the value of m_result before the call
NoMatch == [returned |-> FALSE, error |-> "none", found |-> FALSE, index |-> 0]

\* no record has been built for the photo
NoRecord == [done |-> FALSE, error |-> "none", present |-> FALSE, time_diff_seconds |-> 0]

\* process_photos_with_gpx has not been called
NoGpxRun ==
    [ran |-> FALSE, photo_dir |-> {}, trackpoints |-> FALSE, geotaggable |-> {},
     examined |-> {}, processed_photos |-> {}]

\* format_distance has not been called
NoFormatting ==
    /\ f_distance = 0
    /\ f_result = NoCall

\* _generate_hashtags has not been called
NoHashtags ==
    /\ h_activity_data = EmptyDict
    /\ h_photo_data = [timestamp |-> [valid |-> FALSE, hour |-> 0], location_name |-> <<>>]
    /\ h_run_type = "casual_run"
    /\ h_result = NoCall

\* no StravaAPI object has been constructed
NoClient ==
    /\ s_environment = [client_id |-> FALSE, client_secret |-> FALSE, refresh_token |-> FALSE]
    /\ s_response = [status |-> "not_sent", has_refresh_token |-> FALSE, access_token |-> "missing"]
    /\ s_client = NoCall

EmptyDir == [files |-> {}, results |-> <<>>]

Init ==
    /\ clock = StartClock
    /\ strava_api \in BOOLEAN
    /\ pending_photos = <<>>
    /\ recent_activities = <<>>
    /\ processed_sessions = <<>>
    /\ session_dirs = [id \in {} |-> EmptyDir]
    /\ sessions = <<>>
    /\ pc = "idle"
    /\ last_error = "none"
    /\ last_gpx_run = NoGpxRun
    /\ m_query = 0
    /\ m_query_aware = FALSE
    /\ m_trackpoints = <<>>
    /\ m_tolerance = 0
    /\ m_result = NoMatch
    /\ m_processed_data = NoRecord
    /\ NoAggregation
    /\ NoComposition
    /\ NoFormatting
    /\ NoHashtags
    /\ NoClient

-----------------------------------------------------------------------------
(* Time passes: datetime.now() moves on by a second *)

Tick ==
    /\ clock - StartClock < MaxSecs
    /\ clock' = clock + 1
    /\ UNCHANGED <<strava_api, pending_photos, recent_activities, processed_sessions,
                   session_dirs, sessions, pc, last_error, last_gpx_run>>
    /\ UNCHANGED component_vars

-----------------------------------------------------------------------------
(* queue_photo_for_processing: appends the entry, then calls                *)
(* self._try_process_pending(), a method the class does not define, so the  *)
(* call ends in AttributeError after the append.                            *)

PhotoEntry(path, now) == [path |-> path, timestamp |-> now, processed |-> FALSE]

QueueAppend(photos, path, now) == Append(photos, PhotoEntry(path, now))

queue_photo_for_processing(path) ==
    /\ Len(pending_photos) < MaxPhotos
    /\ pending_photos' = QueueAppend(pending_photos, path, clock)
    /\ last_error' = "AttributeError"
    /\ UNCHANGED <<clock, strava_api, recent_activities, processed_sessions,
                   session_dirs, sessions, pc, last_gpx_run>>
    /\ UNCHANGED component_vars

\* a call of the method from the thread of the main loop, with any path (the
\* watcher and the 'process' command hand it files with a photo suffix only):
\* not while that thread is inside a pass
QueuePhoto(path) ==
    /\ pc = "idle"
    /\ queue_photo_for_processing(path)

\* StravaWorkflowHandler.on_created, run by the observer thread at any time;
\* file.suffix stands for file_path.suffix.lower()
on_created(is_directory, file) ==
    IF is_directory \/ file.suffix \notin PhotoSuffixes
    THEN UNCHANGED vars
    ELSE queue_photo_for_processing(file)

-----------------------------------------------------------------------------
(* fetch_recent_activities followed by _try_process_with_activities up to   *)
(* the start of the for loop over the sessions                              *)

fetch_recent_activities(api_ok, response, tick_at) ==
    /\ pc = "idle"
    /\ UNCHANGED <<strava_api, pending_photos, processed_sessions, session_dirs, last_gpx_run>>
    /\ UNCHANGED component_vars
    /\ IF ~strava_api
       THEN \* "Strava API not available"
            /\ last_error' = "none"
            /\ UNCHANGED <<clock, recent_activities, sessions, pc>>
       ELSE IF ~api_ok
       THEN \* get_recent_activities raised, caught at line 128
            /\ last_error' = "RequestException"
            /\ UNCHANGED <<clock, recent_activities, sessions, pc>>
       ELSE
            /\ Len(recent_activities) + Len(response) <= MaxActivities
            /\ recent_activities' = AppendActivities(recent_activities, response)
            /\ IF pending_photos = <<>> \/ recent_activities' = <<>>
               THEN /\ last_error' = "none"
                    /\ UNCHANGED <<clock, sessions, pc>>
               ELSE LET group == GroupPhotosWithActivities(recent_activities', pending_photos,
                                                           time_window_hours, clock, tick_at)
                    IN /\ tick_at # 0 => clock - StartClock < MaxSecs
                       /\ clock' = IF tick_at # 0 THEN clock + 1 ELSE clock
                       /\ sessions' = group.sessions
                       /\ pc' = IF group.sessions = <<>> THEN "idle" ELSE "processing"
                       /\ last_error' = IF group.raised THEN "TypeError" ELSE "none"

-----------------------------------------------------------------------------
(* _process_session_with_activity, one iteration of the for loop of        *)
(* _try_process_with_activities.                                           *)
(*   gpx_ok    : create_gpx_from_activity returned a path                  *)
(*   cp_fail   : 0, or the position of the photo whose cp fails            *)
(*   trackpoints : parse_gpx_file returned at least one trackpoint         *)
(*   geotaggable : the files that have a trackpoint within the tolerance   *)
(*                 and that exiftool geotags successfully                  *)
(*   raises      : process_photos_with_gpx or generate_caption raises; the *)
(*                 files recorded as returned are then the ones collected  *)
(*                 before the exception                                    *)

\* session_dir.mkdir(exist_ok = True): an existing directory is reused
SessionDir(dirs, session_id) ==
    IF session_id \in DOMAIN dirs THEN dirs[session_id] ELSE EmptyDir

WriteDir(dirs, session_id, dir) ==
    [id \in DOMAIN dirs \cup {session_id} |-> IF id = session_id THEN dir ELSE dirs[id]]

SeqRange(q) == { q[k] : k \in 1..Len(q) }

\* with open(results_file, 'w'): an existing session_results.json is replaced
WriteResults(dir, files, session_results) ==
    [files |-> files, results |-> <<session_results>>]

\* the session_results dict, without its timestamp and its caption texts
SessionResults(session, activities, processed_photos, note) ==
    [session_id |-> session.session_id,
     strava_activity_id |-> activities[session.activity].activity_id,
     activity |-> session.activity,        \* the activity entry folded into the session
     photo_entries |-> session.photos,     \* the photo entries folded into the session
     processed_photos |-> processed_photos,
     note |-> note]

\* lines 257-260: activity_entry['processed'] = True, photo_entry['processed'] = True
MarkActivity(activities, session) ==
    [activities EXCEPT ![session.activity].processed = TRUE]

MarkPhotos(photos, session) ==
    [k \in 1..Len(photos) |->
        IF k \in SeqRange(session.photos) THEN [photos[k] EXCEPT !.processed = TRUE]
        ELSE photos[k]]

\* _process_photos_without_gps after the copies: lines 294-327
ProcessPhotosWithoutGps(session, dir, files) ==
    LET processed_photos == { pending_photos[session.photos[k]].path : k \in 1..Len(session.photos) }
        session_results == SessionResults(session, recent_activities, processed_photos, "no_gps")
    IN /\ Len(processed_sessions) < MaxSessions
       /\ session_dirs' = WriteDir(session_dirs, session.session_id,
                                   WriteResults(dir, files, session_results))
       /\ processed_sessions' = Append(processed_sessions, session_results)
       /\ UNCHANGED <<pending_photos, recent_activities>>

\* CommitWithGps without line 262, self.processed_sessions.append(session_results)
CommitWithGpsNoRecord(session, dir, files, processed_photos) ==
    LET session_results == SessionResults(session, recent_activities, processed_photos, "gps")
    IN /\ Len(processed_sessions) < MaxSessions
       /\ session_dirs' = WriteDir(session_dirs, session.session_id,
                                   WriteResults(dir, files, session_results))
       /\ recent_activities' = MarkActivity(recent_activities, session)
       /\ pending_photos' = MarkPhotos(pending_photos, session)
       /\ processed_sessions' = processed_sessions

\* lines 225-265: the branch `if processed_photos:`
CommitWithGps(session, dir, files, processed_photos) ==
    LET session_results == SessionResults(session, recent_activities, processed_photos, "gps")
    IN /\ Len(processed_sessions) < MaxSessions
       /\ session_dirs' = WriteDir(session_dirs, session.session_id,
                                   WriteResults(dir, files, session_results))
       /\ recent_activities' = MarkActivity(recent_activities, session)
       /\ pending_photos' = MarkPhotos(pending_photos, session)
       /\ processed_sessions' = Append(processed_sessions, session_results)

\* photo_processor.py lines 171-239: the loop runs over the files the glob
\* yields, and not at all when the GPX file has no trackpoint
process_photos_with_gpx(files, trackpoints, geotaggable) ==
    LET examined == IF trackpoints THEN { f \in files : GlobMatches(f) } ELSE {}
    IN [ran |-> TRUE, photo_dir |-> files, trackpoints |-> trackpoints,
        geotaggable |-> geotaggable, examined |-> examined,
        processed_photos |-> examined \cap geotaggable]

process_session_with_activity(gpx_ok, cp_fail, trackpoints, geotaggable, raises) ==
    /\ pc = "processing"
    /\ sessions # <<>>
    /\ UNCHANGED <<clock, strava_api>>
    /\ UNCHANGED component_vars
    /\ LET session == Head(sessions)
           n == Len(session.photos)
           copied == IF cp_fail = 0 THEN n ELSE cp_fail - 1
           dir == SessionDir(session_dirs, session.session_id)
           files == dir.files \cup { pending_photos[session.photos[k]].path : k \in 1..copied }
           gpx_run == process_photos_with_gpx(files, trackpoints, geotaggable)
           next_pc == IF Tail(sessions) = <<>> THEN "idle" ELSE "processing"
       IN /\ cp_fail \in 0..n
          /\ geotaggable \subseteq files
          /\ trackpoints \/ geotaggable = {}
          /\ last_gpx_run' = IF cp_fail = 0 /\ gpx_ok THEN gpx_run ELSE last_gpx_run
          /\ IF cp_fail # 0
             THEN \* subprocess.run(check=True) raises outside every try of the
                  \* pass: the exception leaves the for loop and is caught at line 128
                  /\ session_dirs' = WriteDir(session_dirs, session.session_id,
                                              [dir EXCEPT !.files = files])
                  /\ sessions' = <<>>
                  /\ pc' = "idle"
                  /\ last_error' = "CalledProcessError"
                  /\ UNCHANGED <<pending_photos, recent_activities, processed_sessions>>
             ELSE IF ~gpx_ok
             THEN /\ ProcessPhotosWithoutGps(session, dir, files)
                  /\ sessions' = Tail(sessions)
                  /\ pc' = next_pc
                  /\ last_error' = "none"
             ELSE IF raises \/ gpx_run.processed_photos = {}
             THEN \* caught at line 267, or processed_photos is empty
                  /\ session_dirs' = WriteDir(session_dirs, session.session_id,
                                              [dir EXCEPT !.files = files])
                  /\ sessions' = Tail(sessions)
                  /\ pc' = next_pc
                  /\ last_error' = IF raises THEN "SessionError" ELSE "none"
                  /\ UNCHANGED <<pending_photos, recent_activities, processed_sessions>>
             ELSE /\ CommitWithGps(session, dir, files, gpx_run.processed_photos)
                  /\ sessions' = Tail(sessions)
                  /\ pc' = next_pc
                  /\ last_error' = "none"

-----------------------------------------------------------------------------

\* the inputs of an operation are drawn only where the operation reads them
Next ==
    \/ Tick
    \/ \E path \in Paths : QueuePhoto(path)
    \/ \E is_directory \in BOOLEAN, file \in WatchedFiles : on_created(is_directory, file)
    \/ \E api_ok \in BOOLEAN :
          \E response \in (IF api_ok THEN Responses ELSE {<<>>}),
             tick_at \in (IF api_ok THEN 0..MaxActivities ELSE {0}) :
             fetch_recent_activities(api_ok, response, tick_at)
    \/ \E gpx_ok \in BOOLEAN, cp_fail \in 0..MaxPhotos :
          \E trackpoints \in (IF gpx_ok /\ cp_fail = 0 THEN BOOLEAN ELSE {FALSE}) :
             \E geotaggable \in (IF trackpoints THEN SUBSET Paths ELSE {{}}),
                raises \in (IF gpx_ok /\ cp_fail = 0 THEN BOOLEAN ELSE {FALSE}) :
                process_session_with_activity(gpx_ok, cp_fail, trackpoints, geotaggable, raises)

Spec == Init /\ [][Next]_vars

-----------------------------------------------------------------------------
(* The matcher on its own: every photo timestamp, trackpoint list and       *)
(* tolerance within the bounds, then one call.                              *)

TrackLists == UNION { [1..n -> TrackPoints] : n \in 0..MaxTrackLen }

\* a track sampled every five minutes, the zone information of each point
\* either kept or not by the parser
FiveMinuteTracks ==
    { <<[time |-> 0, aware |-> z[1]], [time |-> 300, aware |-> z[2]], [time |-> 600, aware |-> z[3]]>> :
         z \in [1..3 -> BOOLEAN] }

\* a photo taken between two points of such a track, matched with the default
\* tolerance (tolerance_seconds: int = 30) and with a wide one
FiveMinuteCalls == [query : {150}, trackpoints : FiveMinuteTracks, tolerance : {30, 200}]

InitMatcher ==
    /\ clock = StartClock
    /\ strava_api = FALSE
    /\ pending_photos = <<>>
    /\ recent_activities = <<>>
    /\ processed_sessions = <<>>
    /\ session_dirs = [id \in {} |-> EmptyDir]
    /\ sessions = <<>>
    /\ pc = "idle"
    /\ last_error = "none"
    /\ last_gpx_run = NoGpxRun
    /\ \/ /\ m_query \in 0..MaxTime
          /\ m_trackpoints \in TrackLists
          /\ m_tolerance \in 0..MaxTolerance
       \/ \E call \in FiveMinuteCalls :
             /\ m_query = call.query
             /\ m_trackpoints = call.trackpoints
             /\ m_tolerance = call.tolerance
    /\ m_query_aware \in BOOLEAN
    /\ m_result = NoMatch
    /\ m_processed_data = NoRecord
    /\ NoAggregation
    /\ NoComposition
    /\ NoFormatting
    /\ NoHashtags
    /\ NoClient

FindClosest ==
    /\ ~m_result.returned
    /\ m_result.error = "none"
    /\ m_result' = find_closest_trackpoint([time |-> m_query, aware |-> m_query_aware],
                                           m_trackpoints, m_tolerance)
    /\ UNCHANGED <<m_query, m_query_aware, m_trackpoints, m_tolerance, m_processed_data>>
    /\ UNCHANGED <<workflow_vars, aggregator_vars, composer_vars, formatter_vars,
                   hashtag_vars, client_vars>>

\* the rest of the loop body of process_photos_with_gpx for a photo the
\* matcher returned a trackpoint for
RecordPhoto(geotag_ok) ==
    /\ m_result.returned
    /\ m_result.found
    /\ ~m_processed_data.done
    /\ m_processed_data' = ProcessedData([time |-> m_query, aware |-> m_query_aware],
                                         m_trackpoints[m_result.index], geotag_ok)
    /\ UNCHANGED <<m_query, m_query_aware, m_trackpoints, m_tolerance, m_result>>
    /\ UNCHANGED <<workflow_vars, aggregator_vars, composer_vars, formatter_vars,
                   hashtag_vars, client_vars>>

NextMatcher ==
    \/ FindClosest
    \/ \E geotag_ok \in BOOLEAN : RecordPhoto(geotag_ok)

SpecMatcher == InitMatcher /\ [][NextMatcher]_vars

-----------------------------------------------------------------------------
(* The aggregator on its own: every GPX file within the bounds, one call   *)
(* of _extract_activity_data, then what its callers (_process_session, the *)
(* 'process' command) do with the dict.                                    *)

GpxFiles == UNION { [1..n -> GpxPoints] : n \in 0..MaxSamples }

\* a track of three points with a descent and a climb
ClimbFile ==
    << [time |-> 0, pos |-> 0, elevation |-> [has |-> TRUE, value |-> 100]],
       [time |-> 1, pos |-> 1, elevation |-> [has |-> TRUE, value |-> 90]],
       [time |-> 2, pos |-> 3, elevation |-> [has |-> TRUE, value |-> 120]] >>

\* a file whose points are not in time order: the last two were logged at the
\* same time, before the first
StallFile ==
    << [time |-> 1, pos |-> 2, elevation |-> [has |-> TRUE, value |-> 0]],
       [time |-> 0, pos |-> 0, elevation |-> NoElevation],
       [time |-> 0, pos |-> 1, elevation |-> [has |-> TRUE, value |-> 1]] >>

InitAggregator ==
    /\ clock = StartClock
    /\ strava_api = FALSE
    /\ pending_photos = <<>>
    /\ recent_activities = <<>>
    /\ processed_sessions = <<>>
    /\ session_dirs = [id \in {} |-> EmptyDir]
    /\ sessions = <<>>
    /\ pc = "idle"
    /\ last_error = "none"
    /\ last_gpx_run = NoGpxRun
    /\ m_query = 0
    /\ m_query_aware = FALSE
    /\ m_trackpoints = <<>>
    /\ m_tolerance = 0
    /\ m_result = NoMatch
    /\ m_processed_data = NoRecord
    /\ a_track \in GpxFiles \cup {ClimbFile, StallFile}
    /\ a_result = [called |-> FALSE, value |-> EmptyDict]
    /\ a_caller = NoCall
    /\ NoComposition
    /\ NoFormatting
    /\ NoHashtags
    /\ NoClient

ExtractActivityData ==
    /\ ~a_result.called
    /\ a_result' = [called |-> TRUE, value |-> extract_activity_data(a_track)]
    /\ UNCHANGED <<a_track, a_caller>>
    /\ UNCHANGED <<workflow_vars, matcher_vars, composer_vars, formatter_vars,
                   hashtag_vars, client_vars>>

\* lines 362-403 and 607-611: a caption for a photo, and the preview
UseActivityData(photo_data, include_sales_context) ==
    /\ a_result.called
    /\ ~a_caller.called
    /\ LET caption == generate_caption(a_result.value, photo_data, include_sales_context)
           preview == display_session_preview(a_result.value)
       IN a_caller' = [called |-> TRUE,
                       error |-> IF caption.error # "none" THEN caption.error ELSE preview.error,
                       run_type |-> caption.run_type,
                       preview |-> preview]
    /\ UNCHANGED <<a_track, a_result>>
    /\ UNCHANGED <<workflow_vars, matcher_vars, composer_vars, formatter_vars,
                   hashtag_vars, client_vars>>

\* the photos the callers make captions for: one without a usable timestamp
\* and one taken in the afternoon at a scenic place
CaptionedPhotos ==
    { [timestamp |-> [valid |-> FALSE, hour |-> 0], location_name |-> {}],
      [timestamp |-> [valid |-> TRUE, hour |-> 15], location_name |-> {"park"}] }

NextAggregator ==
    \/ ExtractActivityData
    \/ \E photo_data \in CaptionedPhotos, include_sales_context \in BOOLEAN :
          UseActivityData(photo_data, include_sales_context)

SpecAggregator == InitAggregator /\ [][NextAggregator]_vars

-----------------------------------------------------------------------------
(* The caption generator on its own *)

InitComposer ==
    /\ clock = StartClock
    /\ strava_api = FALSE
    /\ pending_photos = <<>>
    /\ recent_activities = <<>>
    /\ processed_sessions = <<>>
    /\ session_dirs = [id \in {} |-> EmptyDir]
    /\ sessions = <<>>
    /\ pc = "idle"
    /\ last_error = "none"
    /\ last_gpx_run = NoGpxRun
    /\ m_query = 0
    /\ m_query_aware = FALSE
    /\ m_trackpoints = <<>>
    /\ m_tolerance = 0
    /\ m_result = NoMatch
    /\ m_processed_data = NoRecord
    /\ NoAggregation
    /\ c_activity_data \in ActivityData
    /\ c_photo_data \in PhotoData
    /\ c_include_sales_context \in BOOLEAN
    /\ c_result = NoCall
    /\ c_caption = NoCaption
    /\ NoFormatting
    /\ NoHashtags
    /\ NoClient

\* the draws of random.choice in one call
Picks == [template : 1..3, weather : 1..3, mood : 1..3]

GenerateCaption(pick, above) ==
    /\ ~c_result.called
    /\ c_result' = generate_caption(c_activity_data, c_photo_data, c_include_sales_context)
    /\ c_caption' = format_caption(c_result', c_activity_data, c_photo_data, pick, above)
    /\ UNCHANGED <<c_activity_data, c_photo_data, c_include_sales_context>>
    /\ UNCHANGED <<workflow_vars, matcher_vars, aggregator_vars, formatter_vars,
                   hashtag_vars, client_vars>>

NextComposer == \E pick \in Picks, above \in BOOLEAN : GenerateCaption(pick, above)

SpecComposer == InitComposer /\ [][NextComposer]_vars

-----------------------------------------------------------------------------
(* format_distance on its own: every distance up to MaxDistance tenths of  *)
(* a meter                                                                 *)

InitFormatter ==
    /\ clock = StartClock
    /\ strava_api = FALSE
    /\ pending_photos = <<>>
    /\ recent_activities = <<>>
    /\ processed_sessions = <<>>
    /\ session_dirs = [id \in {} |-> EmptyDir]
    /\ sessions = <<>>
    /\ pc = "idle"
    /\ last_error = "none"
    /\ last_gpx_run = NoGpxRun
    /\ m_query = 0
    /\ m_query_aware = FALSE
    /\ m_trackpoints = <<>>
    /\ m_tolerance = 0
    /\ m_result = NoMatch
    /\ m_processed_data = NoRecord
    /\ NoAggregation
    /\ NoComposition
    /\ f_distance \in 0..MaxDistance
    /\ f_result = NoCall
    /\ NoHashtags
    /\ NoClient

FormatDistance(above) ==
    /\ ~f_result.called
    /\ f_result' = format_distance(f_distance, above)
    /\ UNCHANGED f_distance
    /\ UNCHANGED <<workflow_vars, matcher_vars, aggregator_vars, composer_vars,
                   hashtag_vars, client_vars>>

NextFormatter == \E above \in BOOLEAN : FormatDistance(above)

SpecFormatter == InitFormatter /\ [][NextFormatter]_vars

-----------------------------------------------------------------------------
(* _generate_hashtags on its own: distances on both sides of the three     *)
(* thresholds, the hours of the day, the run types, and location texts     *)
(* with and without a first part that is the text of another tag           *)

HashtagDistances == {0, 5000, 5001, 10000, 10001, 21000, 21001, 42195}

HashtagActivities ==
    {EmptyDict} \cup { [EmptyDict EXCEPT !.present = TRUE, !.distance = d] : d \in HashtagDistances }

LocationTexts ==
    { <<>>,
      <<"B", "o">>,
      <<"B", "o", "s", "t", "o", "n", ",", " ", "M", "a", "s", "s", "a", "c", "h", "u", "s", "e", "t", "t", "s">>,
      <<"S", "t", ".", " ", "L", "o", "u", "i", "s", ",", " ", "M", "i", "s", "s", "o", "u", "r", "i">>,
      <<"M", "a", "r", "a", "t", "h", "o", "n", ",", " ", "F", "l", "o", "r", "i", "d", "a">>,
      <<"M", "o", "r", "n", "i", "n", "g", " ", "R", "u", "n", ",", " ", "O", "h", "i", "o">>,
      <<"4", "0", ".", "7", "1", "2", "8", ",", " ", "-", "7", "4", ".", "0", "0", "6", "0">> }

InitHashtags ==
    /\ clock = StartClock
    /\ strava_api = FALSE
    /\ pending_photos = <<>>
    /\ recent_activities = <<>>
    /\ processed_sessions = <<>>
    /\ session_dirs = [id \in {} |-> EmptyDir]
    /\ sessions = <<>>
    /\ pc = "idle"
    /\ last_error = "none"
    /\ last_gpx_run = NoGpxRun
    /\ m_query = 0
    /\ m_query_aware = FALSE
    /\ m_trackpoints = <<>>
    /\ m_tolerance = 0
    /\ m_result = NoMatch
    /\ m_processed_data = NoRecord
    /\ NoAggregation
    /\ NoComposition
    /\ NoFormatting
    /\ h_activity_data \in HashtagActivities
    /\ h_photo_data \in [timestamp : Timestamps, location_name : LocationTexts]
    /\ h_run_type \in TemplateKeys
    /\ h_result = NoCall
    /\ NoClient

GenerateHashtags ==
    /\ ~h_result.called
    /\ h_result' = generate_hashtags(h_activity_data, h_photo_data, h_run_type)
    /\ UNCHANGED <<h_activity_data, h_photo_data, h_run_type>>
    /\ UNCHANGED <<workflow_vars, matcher_vars, aggregator_vars, composer_vars,
                   formatter_vars, client_vars>>

NextHashtags == GenerateHashtags

SpecHashtags == InitHashtags /\ [][NextHashtags]_vars

-----------------------------------------------------------------------------
(* The constructor of StravaAPI on its own *)

InitClient ==
    /\ clock = StartClock
    /\ strava_api = FALSE
    /\ pending_photos = <<>>
    /\ recent_activities = <<>>
    /\ processed_sessions = <<>>
    /\ session_dirs = [id \in {} |-> EmptyDir]
    /\ sessions = <<>>
    /\ pc = "idle"
    /\ last_error = "none"
    /\ last_gpx_run = NoGpxRun
    /\ m_query = 0
    /\ m_query_aware = FALSE
    /\ m_trackpoints = <<>>
    /\ m_tolerance = 0
    /\ m_result = NoMatch
    /\ m_processed_data = NoRecord
    /\ NoAggregation
    /\ NoComposition
    /\ NoFormatting
    /\ NoHashtags
    /\ s_environment \in Environments
    /\ s_response \in TokenResponses
    /\ s_client = NoCall

Construct ==
    /\ ~s_client.called
    /\ s_client' = StravaAPI(s_environment, s_response)
    /\ UNCHANGED <<s_environment, s_response>>
    /\ UNCHANGED <<workflow_vars, matcher_vars, aggregator_vars, composer_vars,
                   formatter_vars, hashtag_vars>>

NextClient == Construct

SpecClient == InitClient /\ [][NextClient]_vars

-----------------------------------------------------------------------------
(* Properties of the session grouper *)

Records == 1..Len(processed_sessions)

\* C1: every photo entry and every activity entry is folded into at most one
\* committed session (first-committed-wins: no later committed session holds
\* an entry that an earlier one holds).
C1_AtMostOneSession ==
    \A i, j \in Records :
        i # j =>
            /\ processed_sessions[i].activity # processed_sessions[j].activity
            /\ SeqRange(processed_sessions[i].photo_entries)
                 \cap SeqRange(processed_sessions[j].photo_entries) = {}

\* C2: the committed sessions have pairwise different session ids.
C2_UniqueSessionIds ==
    \A i, j \in Records :
        i # j => processed_sessions[i].session_id # processed_sessions[j].session_id

\* C3: the activity entry and every photo entry of a committed session have
\* processed = TRUE, whichever path committed it.
C3_CommittedItemsProcessed ==
    \A i \in Records :
        /\ recent_activities[processed_sessions[i].activity].processed
        /\ \A k \in SeqRange(processed_sessions[i].photo_entries) : pending_photos[k].processed

\* two records of the same session: same id, same Strava activity, same photos
SameSession(r1, r2) ==
    /\ r1.session_id = r2.session_id
    /\ r1.strava_activity_id = r2.strava_activity_id
    /\ r1.photo_entries = r2.photo_entries

\* C4: a session committed again (same id, same items) is not recorded a
\* second time: processed_sessions holds one record of it.
C4_NoDuplicateRecord ==
    \A i, j \in Records :
        i # j => ~SameSession(processed_sessions[i], processed_sessions[j])

\* C5: a failure while one session candidate is processed does not abort the
\* pass: a step inside the pass removes at most the candidate it processed, the
\* remaining candidates stay to be processed.
C5_PassContinues ==
    [][pc = "processing" => sessions' \in {sessions, Tail(sessions)}]_vars

\* C6: access to the queues is serialized: while a grouping pass is between
\* its scan and its last commit, no entry is appended to pending_photos.
C6_QueuesSerialized ==
    [][pc = "processing" => Len(pending_photos') = Len(pending_photos)]_vars

\* a step in which _group_photos_with_activities ran
GroupingStep ==
    /\ pc = "idle"
    /\ strava_api
    /\ pending_photos # <<>>
    /\ recent_activities' # <<>>
    /\ \E response \in Responses, tick_at \in 0..MaxActivities :
          fetch_recent_activities(TRUE, response, tick_at)

\* the unprocessed photo entries within the window of the activity entry a
PhotosInWindow(a) ==
    { k \in 1..Len(pending_photos) :
        /\ ~pending_photos[k].processed
        /\ Abs(pending_photos[k].timestamp - recent_activities'[a].start_date)
             <= time_window_hours * SecondsPerHour }

\* C7: for every unprocessed activity entry the grouping produces one session
\* candidate whose photos are exactly the unprocessed photo entries at most
\* time_window_hours from the activity's start (boundary included), and no
\* candidate when there is no such photo.
C7_CandidatesExact ==
    [][GroupingStep =>
         \A a \in 1..Len(recent_activities') :
            ~recent_activities'[a].processed =>
               LET candidates == { n \in 1..Len(sessions') : sessions'[n].activity = a }
               IN IF PhotosInWindow(a) = {}
                  THEN candidates = {}
                  ELSE /\ Cardinality(candidates) = 1
                       /\ \A n \in candidates :
                             /\ SeqRange(sessions'[n].photos) = PhotosInWindow(a)
                             /\ Len(sessions'[n].photos) = Cardinality(PhotosInWindow(a))]_vars

\* C8: an entry with processed = TRUE is in no session candidate of a grouping
\* pass that runs afterwards (a pass starts in the one step that takes the main
\* thread from idle into the loop over the candidates it has just built).
C8_ProcessedExcluded ==
    [][(pc = "idle" /\ pc' = "processing") =>
         \A n \in 1..Len(sessions') :
            /\ ~recent_activities'[sessions'[n].activity].processed
            /\ \A k \in SeqRange(sessions'[n].photos) : ~pending_photos'[k].processed]_vars

\* a later pass left out a processed photo that lies within the window of the
\* candidate's activity, and a processed activity has no candidate
C8_Witness ==
    /\ pc = "processing"
    /\ \E n \in 1..Len(sessions), p \in 1..Len(pending_photos), a \in 1..Len(recent_activities) :
          /\ pending_photos[p].processed
          /\ recent_activities[a].processed
          /\ Abs(pending_photos[p].timestamp - recent_activities[sessions[n].activity].start_date)
               <= time_window_hours * SecondsPerHour
          /\ p \notin SeqRange(sessions[n].photos)
          /\ \A k \in SeqRange(sessions[n].photos) : ~pending_photos[k].processed
          /\ ~recent_activities[sessions[n].activity].processed
          /\ \A m \in 1..Len(sessions) : sessions[m].activity # a

-----------------------------------------------------------------------------
(* Properties of the trackpoint matcher *)

\* the difference between the photo timestamp and the wall-clock reading of
\* the k-th trackpoint
PointDiff(k) == Abs(m_query - m_trackpoints[k].time)

WithinTolerance == { k \in 1..Len(m_trackpoints) : PointDiff(k) <= m_tolerance }

\* C9: find_closest_trackpoint never returns a trackpoint whose absolute time
\* difference from the photo timestamp exceeds tolerance_seconds.
C9_NeverBeyondTolerance ==
    (m_result.returned /\ m_result.found) =>
        /\ m_result.index \in 1..Len(m_trackpoints)
        /\ PointDiff(m_result.index) <= m_tolerance

\* a trackpoint was returned although an earlier one of the list lies beyond
\* the tolerance
C9_Witness ==
    /\ m_result.returned
    /\ m_result.found
    /\ \E k \in 1..Len(m_trackpoints) : k < m_result.index /\ PointDiff(k) > m_tolerance

\* C10: the returned trackpoint has the smallest difference among the
\* trackpoints within tolerance, in whatever order the list is; of several
\* with that difference it is the first of the list; an empty list or a list
\* with every difference beyond the tolerance gives none.
C10_ClosestFirstOrNone ==
    m_result.returned =>
        IF WithinTolerance = {}
        THEN ~m_result.found
        ELSE /\ m_result.found
             /\ m_result.index \in WithinTolerance
             /\ \A k \in WithinTolerance :
                   /\ PointDiff(m_result.index) <= PointDiff(k)
                   /\ PointDiff(k) = PointDiff(m_result.index) => m_result.index <= k

\* two trackpoints tie, in a list that is not in time order, and the first of
\* them was returned
C10_Witness ==
    /\ m_result.returned
    /\ m_result.found
    /\ \E k \in WithinTolerance :
          k > m_result.index /\ PointDiff(k) = PointDiff(m_result.index)
    /\ \E k \in 1..(Len(m_trackpoints) - 1) : m_trackpoints[k].time > m_trackpoints[k+1].time

\* no trackpoint within tolerance although the list is not empty: none returned
C10_WitnessNone ==
    /\ m_result.returned
    /\ ~m_result.found
    /\ m_trackpoints # <<>>

\* the call of the five minute track: a naive photo timestamp at 150 s
FiveMinuteCall ==
    /\ m_query = 150
    /\ ~m_query_aware
    /\ m_trackpoints \in FiveMinuteTracks

\* C11 as stated: for trackpoints at 0, 300 and 600 s and a photo at 150 s,
\* tolerance 30 s gives no match and tolerance 200 s gives the trackpoint at
\* 300 s.
C11_ScenarioReturns300 ==
    (m_result.returned /\ FiveMinuteCall) =>
        IF m_tolerance = 30
        THEN ~m_result.found
        ELSE m_result.found /\ m_trackpoints[m_result.index].time = 300

\* C11 amended: tolerance 30 s gives no match; with tolerance 200 s the
\* trackpoints at 0 s and at 300 s are both 150 s away and the first of the
\* list, the one at 0 s, is returned.
C11_ScenarioReturnsFirstTie ==
    (m_result.returned /\ FiveMinuteCall) =>
        IF m_tolerance = 30
        THEN ~m_result.found
        ELSE /\ m_result.found
             /\ m_result.index = 1
             /\ m_trackpoints[m_result.index].time = 0

\* the call with the tolerance of 200 s has returned a trackpoint
C11_Witness ==
    /\ m_result.returned
    /\ FiveMinuteCall
    /\ m_tolerance = 200
    /\ m_result.found

\* the call with the tolerance of 30 s has returned none
C11_WitnessNone ==
    /\ m_result.returned
    /\ FiveMinuteCall
    /\ m_tolerance = 30
    /\ ~m_result.found

\* the photo timestamp and a trackpoint differ in carrying zone information
ZoneMix == \E k \in 1..Len(m_trackpoints) : m_trackpoints[k].aware # m_query_aware

\* C12: when a trackpoint carries zone information and the photo timestamp
\* does not, or the other way round, find_closest_trackpoint normalizes both
\* and returns a result (a trackpoint or none); it does not end in an
\* exception.
C12_ZoneMixNormalized ==
    (ZoneMix /\ (m_result.returned \/ m_result.error # "none")) =>
        /\ m_result.returned
        /\ m_result.error = "none"

-----------------------------------------------------------------------------
(* Properties of the track metrics aggregator *)

\* the trackpoints the loop of _extract_activity_data walks
Walked == parse_gpx_file(a_track)

\* the consecutive pairs of a list of points, named by their first index
PairsOf(points) == 1..(Len(points) - 1)

\* the sum of the distances of the first n consecutive pairs of a list
DistanceUpTo(points, n) ==
    LET D[k \in 0..n] == IF k = 0 THEN 0 ELSE D[k-1] + Abs(points[k+1].pos - points[k].pos)
    IN D[n]

\* C13: the distance is the running sum of the distances of all consecutive
\* pairs of trackpoints, pairs without a positive time delta included, and the
\* running total never decreases from one pair to the next.
C13_DistanceRunningSum ==
    (a_result.called /\ a_track # <<>>) =>
        /\ a_result.value.present
        /\ Len(a_result.value.running) = Len(Walked) - 1
        /\ \A n \in PairsOf(Walked) : a_result.value.running[n] = DistanceUpTo(Walked, n)
        /\ a_result.value.distance = DistanceUpTo(Walked, Len(Walked) - 1)
        /\ \A n \in PairsOf(Walked) :
              n > 1 => a_result.value.running[n-1] <= a_result.value.running[n]
        /\ a_result.value.distance >= 0

\* a pair of trackpoints with the same time and different positions was
\* aggregated
C13_Witness ==
    /\ a_result.called
    /\ a_result.value.present
    /\ a_result.value.distance > 0
    /\ Len(a_result.value.running) > 1
    /\ \E n \in PairsOf(Walked) :
          /\ Walked[n+1].time = Walked[n].time
          /\ Walked[n+1].pos # Walked[n].pos

\* C14: the pairs the aggregator uses are the consecutive pairs of the
\* samples in the order they are given, with no sort before the walk: distance
\* and duration are those of the file order.
C14_WalkAsGiven ==
    (a_result.called /\ a_track # <<>>) =>
        /\ a_result.value.present
        /\ a_result.value.distance = DistanceUpTo(a_track, Len(a_track) - 1)
        /\ a_result.value.duration = a_track[Len(a_track)].time - a_track[1].time
        /\ a_result.value.start_time = a_track[1].time

\* the sum of the positive elevation deltas of the first n consecutive pairs
\* whose two points both have an elevation
GainUpTo(points, n) ==
    LET G[k \in 0..n] ==
            IF k = 0 THEN 0
            ELSE IF /\ points[k].elevation.has
                    /\ points[k+1].elevation.has
                    /\ points[k+1].elevation.value > points[k].elevation.value
                 THEN G[k-1] + (points[k+1].elevation.value - points[k].elevation.value)
                 ELSE G[k-1]
    IN G[n]

\* C15: elevation_gain is the sum of the positive elevation deltas over all
\* consecutive trackpoint pairs that both have an elevation, whatever the
\* elevation values are (0 and negative ones included); the elevations
\* 100, 90, 120 give 30.
C15_ElevationGain ==
    (a_result.called /\ a_result.value.present) =>
        /\ a_result.value.elevation_gain = GainUpTo(Walked, Len(Walked) - 1)
        /\ a_track = ClimbFile => a_result.value.elevation_gain = 30

\* the pairs for which a speed is recorded
PositivePairs(points) == { n \in PairsOf(points) : points[n+1].time - points[n].time > 0 }

\* the product of the time deltas of the first n pairs that have a positive one
DeltaProduct(points, n) ==
    LET P[k \in 0..n] ==
            IF k = 0 THEN 1
            ELSE IF k \in PositivePairs(points)
                 THEN P[k-1] * (points[k+1].time - points[k].time)
                 ELSE P[k-1]
    IN P[n]

\* the sum of the speeds of the pairs with a positive time delta, in units of
\* 1 / (10 * DeltaProduct) km/h
SpeedSum(points) ==
    LET all == DeltaProduct(points, Len(points) - 1)
        S[k \in 0..(Len(points) - 1)] ==
            IF k = 0 THEN 0
            ELSE IF k \in PositivePairs(points)
                 THEN S[k-1] + Abs(points[k+1].pos - points[k].pos) * 36
                                 * (all \div (points[k+1].time - points[k].time))
                 ELSE S[k-1]
    IN S[Len(points) - 1]

\* average_speed is the mean of the speeds of the pairs with a positive time
\* delta, 0 when there is no such pair
MeanOfRecordedSpeeds(average_speed, points) ==
    /\ average_speed.den # 0
    /\ IF PositivePairs(points) = {}
       THEN average_speed.num = 0
       ELSE average_speed.num * 10 * DeltaProduct(points, Len(points) - 1)
                              * Cardinality(PositivePairs(points))
              = SpeedSum(points) * average_speed.den

\* C16 as stated: a speed is recorded only for a pair with a time delta > 0,
\* average_speed is the mean of the recorded speeds, and it is 0 when none was
\* recorded, also for a track of no sample.
C16_AverageSpeedOrZero ==
    a_result.called =>
        /\ a_result.value.present
        /\ MeanOfRecordedSpeeds(a_result.value.average_speed, Walked)

\* C16 amended: for a track of at least one sample average_speed is the mean
\* of the speeds of the pairs with a time delta > 0, or 0 when there is none,
\* and no division by zero ends the aggregation; for a track of no sample the
\* returned dict is empty and has no average_speed.
C16_AverageSpeedOrZeroOrAbsent ==
    a_result.called =>
        IF a_track = <<>>
        THEN ~a_result.value.present
        ELSE /\ a_result.value.present
             /\ MeanOfRecordedSpeeds(a_result.value.average_speed, Walked)

\* a track with a pair of time delta 0 and a pair of positive time delta and
\* positive speed was aggregated
C16_Witness ==
    /\ a_result.called
    /\ a_result.value.present
    /\ a_result.value.average_speed.num > 0
    /\ \E n \in PairsOf(Walked) : n \notin PositivePairs(Walked)

\* a track with a pair of time delta 0 only: no speed, average 0
C16_WitnessNone ==
    /\ a_result.called
    /\ a_result.value.present
    /\ Len(Walked) > 1
    /\ PositivePairs(Walked) = {}
    /\ a_result.value.average_speed.num = 0

\* C17: for a track of no or one sample _extract_activity_data returns a dict
\* that is empty or has distance, duration, average speed and elevation gain
\* 0, and its callers (caption, preview) do not fail on it.
C17_EmptyTrackHandled ==
    (a_result.called /\ Len(a_track) <= 1) =>
        /\ a_result.value.present =>
              /\ a_result.value.distance = 0
              /\ a_result.value.duration = 0
              /\ a_result.value.average_speed.num = 0
              /\ a_result.value.elevation_gain = 0
        /\ a_result.value.present <=> Len(a_track) = 1
        /\ a_caller.called =>
              /\ a_caller.error = "none"
              /\ a_caller.preview.distance = 0
              /\ a_caller.preview.duration = 0
              /\ a_caller.run_type \in TemplateKeys

\* the callers have used the empty dict of a track without samples
C17_Witness ==
    /\ a_result.called
    /\ a_track = <<>>
    /\ ~a_result.value.present
    /\ a_caller.called
    /\ a_caller.error = "none"

\* the callers have used the zero metrics of a track of one sample
C17_WitnessOne ==
    /\ a_result.called
    /\ Len(a_track) = 1
    /\ a_result.value.present
    /\ a_caller.called

\* C18: the duration the aggregator returns is >= 0 for every track.
C18_DurationNotNegative ==
    (a_result.called /\ a_result.value.present) => a_result.value.duration >= 0

\* a file whose points are not in time order was aggregated
C18_Witness ==
    /\ a_result.called
    /\ a_result.value.present
    /\ a_result.value.duration > 0
    /\ \E n \in PairsOf(a_track) : a_track[n+1].time < a_track[n].time

-----------------------------------------------------------------------------
(* Properties of the caption generator *)

\* the rules of the decision table, on the inputs of the call (a key that
\* activity_data lacks counts as 0)
DistanceRead == IF c_activity_data.present THEN c_activity_data.distance ELSE 0

ElevationRead == IF c_activity_data.present THEN c_activity_data.elevation_gain ELSE 0

\* average_speed in tenths of km/h (the inputs are whole tenths)
PaceTenthsRead ==
    IF c_activity_data.present
    THEN (c_activity_data.average_speed.num * 10) \div c_activity_data.average_speed.den
    ELSE 0

ScenicRule == \E word \in ScenicWords : word \in c_photo_data.location_name

ChallengingRule == ElevationRead > 100 \/ (DistanceRead > 8 /\ PaceTenthsRead < 55)

CasualRule == PaceTenthsRead > 65 \/ DistanceRead < 5

\* the bucket of the capture hour: lower bound included, upper bound excluded
Bucket ==
    CASE ~c_photo_data.timestamp.valid -> "unknown"
      [] c_photo_data.timestamp.valid /\ c_photo_data.timestamp.hour \in 5..10 -> "morning"
      [] c_photo_data.timestamp.valid /\ c_photo_data.timestamp.hour \in 11..16 -> "afternoon"
      [] c_photo_data.timestamp.valid /\ c_photo_data.timestamp.hour \in 17..20 -> "evening"
      [] OTHER -> "night"

TableCategory ==
    CASE ScenicRule -> "scenic_run"
      [] ~ScenicRule /\ ChallengingRule -> "challenging_run"
      [] ~ScenicRule /\ ~ChallengingRule /\ CasualRule -> "casual_run"
      [] ~ScenicRule /\ ~ChallengingRule /\ ~CasualRule /\ Bucket = "morning" -> "morning_run"
      [] ~ScenicRule /\ ~ChallengingRule /\ ~CasualRule /\ Bucket = "evening" -> "evening_run"
      [] OTHER -> "casual_run"

\* C19: determine_run_type is the decision table in its priority order:
\* scenic, else challenging, else casual, else morning or evening by the
\* bucket of the capture hour, else casual; scenic wins over challenging.
C19_DecisionTable ==
    c_result.called => c_result.base = TableCategory

\* an input that matches the scenic and the challenging rule gave scenic
C19_Witness ==
    /\ c_result.called
    /\ ScenicRule
    /\ ChallengingRule
    /\ c_result.base = "scenic_run"

\* an input that matches none of the first three rules, at 11 o'clock, the
\* first hour that is no longer morning
C19_WitnessBoundary ==
    /\ c_result.called
    /\ ~ScenicRule /\ ~ChallengingRule /\ ~CasualRule
    /\ c_photo_data.timestamp.valid
    /\ c_photo_data.timestamp.hour = 11
    /\ c_result.base = "casual_run"

\* C20: with include_sales_context set and the bucket afternoon or evening
\* the category used for the choice of the template is sales_context, whatever
\* the base category; otherwise it is the base category.
C20_SalesContextOverride ==
    c_result.called =>
        /\ c_result.run_type =
              IF c_include_sales_context /\ Bucket \in {"afternoon", "evening"}
              THEN "sales_context"
              ELSE TableCategory
        /\ c_result.templates = c_result.run_type

\* a scenic run in the afternoon with the flag set got the sales_context
\* templates
C20_Witness ==
    /\ c_result.called
    /\ c_include_sales_context
    /\ Bucket = "afternoon"
    /\ TableCategory = "scenic_run"
    /\ c_result.templates = "sales_context"

\* a morning run with the flag set kept its base category
C20_WitnessMorning ==
    /\ c_result.called
    /\ c_include_sales_context
    /\ Bucket = "morning"
    /\ c_result.templates = "morning_run"

-----------------------------------------------------------------------------
(* Properties of the queues *)

\* C25: a call of queue_photo_for_processing adds exactly one entry for the
\* path with processed = FALSE to pending_photos and returns normally (no
\* exception ends the call), from the watcher callback and from the 'process'
\* command alike.
C25_QueueReturnsNormally ==
    [][\A path \in Paths :
          queue_photo_for_processing(path) =>
             /\ Len(pending_photos') = Len(pending_photos) + 1
             /\ SubSeq(pending_photos', 1, Len(pending_photos)) = pending_photos
             /\ pending_photos'[Len(pending_photos')].path = path
             /\ ~pending_photos'[Len(pending_photos')].processed
             /\ last_error' = "none"]_vars

\* C27: recent_activities holds at most one entry per Strava activity id, so
\* an activity whose entry has processed = TRUE has no unprocessed entry.
C27_OneEntryPerActivity ==
    \A i, j \in 1..Len(recent_activities) :
        i # j => recent_activities[i].activity_id # recent_activities[j].activity_id

\* a step of the loop over the candidates in which the candidate's processing
\* fails: a cp fails, process_photos_with_gpx or generate_caption raises, or
\* no photo is matched
FailedSessionStep ==
    \/ \E gpx_ok \in BOOLEAN, cp_fail \in 1..MaxPhotos :
          process_session_with_activity(gpx_ok, cp_fail, FALSE, {}, FALSE)
    \/ \E geotaggable \in SUBSET Paths :
          \/ process_session_with_activity(TRUE, 0, TRUE, geotaggable, TRUE)
          \/ /\ process_session_with_activity(TRUE, 0, TRUE, geotaggable, FALSE)
             /\ last_gpx_run'.processed_photos = {}
    \/ \E raises \in BOOLEAN : process_session_with_activity(TRUE, 0, FALSE, {}, raises)

\* C28: every photo entry and every activity entry with processed = TRUE
\* belongs to a record of processed_sessions, and a step in which a session's
\* processing fails leaves every processed flag and processed_sessions
\* unchanged.
C28_FlagsFollowRecords ==
    /\ [](/\ \A k \in 1..Len(pending_photos) :
                pending_photos[k].processed =>
                   \E i \in Records : k \in SeqRange(processed_sessions[i].photo_entries)
          /\ \A a \in 1..Len(recent_activities) :
                recent_activities[a].processed =>
                   \E i \in Records : processed_sessions[i].activity = a)
    /\ [][FailedSessionStep =>
            /\ processed_sessions' = processed_sessions
            /\ pending_photos' = pending_photos
            /\ recent_activities' = recent_activities]_vars

\* a candidate failed after an earlier candidate of the pass was committed
\* and its items marked
C28_Witness ==
    /\ last_error = "SessionError"
    /\ processed_sessions # <<>>
    /\ \E k \in 1..Len(pending_photos) : pending_photos[k].processed
    /\ \E a, b \in 1..Len(recent_activities) :
          recent_activities[a].processed /\ ~recent_activities[b].processed

\* C29: pending_photos holds at most one entry per photo path.
C29_OneEntryPerPath ==
    \A i, j \in 1..Len(pending_photos) :
        i # j => pending_photos[i].path # pending_photos[j].path

-----------------------------------------------------------------------------
(* Properties of the GPS path *)

\* a step of the loop over the candidates that takes the GPS path (a GPX file
\* was created, every photo was copied) and ends without an exception
GpsPathStep ==
    \E trackpoints \in BOOLEAN, geotaggable \in SUBSET Paths :
       process_session_with_activity(TRUE, 0, trackpoints, geotaggable, FALSE)

\* the jpg, jpeg, png and heic files of the directory a run worked on
PhotoFiles(run) == { f \in run.photo_dir : f.suffix \in PhotoSuffixes }

\* C26: process_photos_with_gpx examines every jpg, jpeg, png or heic file of
\* the session directory, each of them that has a trackpoint within the
\* tolerance and is geotagged successfully yields a record of the result, and
\* a GPS-path session with at least one such photo is committed and its items
\* are marked processed by the step that processes it.
C26_EveryPhotoProcessed ==
    [][GpsPathStep =>
         LET run == last_gpx_run'
             session == Head(sessions)
         IN /\ run.trackpoints => PhotoFiles(run) \subseteq run.examined
            /\ PhotoFiles(run) \cap run.geotaggable \subseteq run.processed_photos
            /\ PhotoFiles(run) \cap run.geotaggable # {} =>
                  /\ Len(processed_sessions') = Len(processed_sessions) + 1
                  /\ recent_activities'[session.activity].processed
                  /\ \A k \in SeqRange(session.photos) : pending_photos'[k].processed]_vars

-----------------------------------------------------------------------------
(* Properties of the record of a geotagged photo *)

\* C30: for a photo that find_closest_trackpoint matched and that was
\* geotagged, time_diff_seconds is computed without an exception, whether the
\* time of the matched trackpoint is zone-aware or naive, and its value is the
\* difference the matcher used, which is at most the tolerance.
C30_TimeDiffRecorded ==
    (m_processed_data.done /\ (m_processed_data.present \/ m_processed_data.error # "none")) =>
        /\ m_processed_data.error = "none"
        /\ m_processed_data.present
        /\ m_processed_data.time_diff_seconds = PointDiff(m_result.index)
        /\ m_processed_data.time_diff_seconds <= m_tolerance

-----------------------------------------------------------------------------
(* Properties of the caption composer's texts *)

\* C21: format_distance renders a distance below 1000 meters as whole meters
\* with the suffix "m", and a distance of 1000 meters or more in kilometers
\* with one decimal place and the suffix "k", without the decimal exactly when
\* the distance is a whole number of kilometers; 450 gives "450m", 5000 gives
\* "5k" and 10300 gives "10.3k".
C21_DistanceText ==
    f_result.called =>
        /\ f_result.error = "none"
        /\ IF f_distance < 1000 * 10
           THEN /\ f_result.suffix = "m"
                /\ f_result.decimals = 0
                /\ Abs(f_result.whole * 10 - f_distance) <= 5
           ELSE /\ f_result.suffix = "k"
                /\ f_result.decimals = (IF f_distance % (1000 * 10) = 0 THEN 0 ELSE 1)
                /\ f_result.tenth \in 0..9
                /\ f_result.decimals = 0 => f_result.tenth = 0
                /\ Abs((f_result.whole * 10 + f_result.tenth) * 1000 - f_distance) <= 500
        /\ f_distance = 4500 => f_result = DistanceText(450, 0, 0, "m")
        /\ f_distance = 50000 => f_result = DistanceText(5, 0, 0, "k")
        /\ f_distance = 103000 => f_result = DistanceText(10, 1, 3, "k")

\* "10.3k" was produced for 10300 meters
C21_Witness ==
    /\ f_result.called
    /\ f_distance = 103000
    /\ f_result = DistanceText(10, 1, 3, "k")

\* C22: the list _generate_hashtags returns holds no tag twice and at most 6
\* tags, also when the tag made of the location is the text of the generic,
\* distance, time-of-day or type tag.
C22_TagsDistinct ==
    h_result.called =>
        /\ Len(h_result.hashtags) <= 6
        /\ \A i, j \in 1..Len(h_result.hashtags) :
              i # j => h_result.hashtags[i] # h_result.hashtags[j]

\* the values generate_caption hands to template.format
Supplied == {"distance", "location", "weather_desc", "mood", "achievement"}

\* C23: every replacement field of every template of every category is among
\* the values generate_caption supplies (distance, location, weather_desc,
\* mood, achievement); formatting never fails on a missing key and replaces
\* every field of the chosen template.
C23_PlaceholdersSupplied ==
    /\ \A key \in TemplateKeys :
          \A i \in 1..Len(Templates[key]) :
             \A k \in 1..Len(Templates[key][i]) : Templates[key][i][k] \in Supplied
    /\ c_result.called =>
          /\ c_caption.error = "none"
          /\ c_caption.formatted
          /\ c_caption.template \in SeqRange(Templates[c_result.templates])
          /\ Len(c_caption.caption) = Len(c_caption.template)

\* the morning template that uses mood and achievement was filled
C23_Witness ==
    /\ c_result.called
    /\ c_result.templates = "morning_run"
    /\ c_caption.formatted
    /\ c_caption.template = <<"location", "distance", "mood", "achievement">>
    /\ c_caption.caption[3] = "zen"

-----------------------------------------------------------------------------
(* Properties of the Strava client *)

\* C24: when the StravaAPI constructor returns normally, access_token is not
\* None; when a credential is missing or the token request fails, the
\* constructor raises ValueError, and no client with a null token exists.
C24_TokenOrValueError ==
    s_client.called =>
        /\ s_client.constructed => ~s_client.access_token.none
        /\ ~s_client.constructed => s_client.error = "ValueError"
        /\ (\/ ~s_environment.client_id
            \/ ~s_environment.client_secret
            \/ ~s_environment.refresh_token
            \/ s_response.status # "ok") =>
               /\ ~s_client.constructed
               /\ s_client.error = "ValueError"

\* the credentials are there and the token request was answered with an error
\* status: the constructor raised ValueError
C24_Witness ==
    /\ s_client.called
    /\ s_environment = [client_id |-> TRUE, client_secret |-> TRUE, refresh_token |-> TRUE]
    /\ s_response.status = "http_error"
    /\ s_client.error = "ValueError"
    /\ ~s_client.constructed

====
